---- MODULE Spec2Model ----
(***************************************************************************)
(* Model of 3dendzsinke.cpp: the dual-number engine (Dnum), the parametric *)
(* surface tessellator (ParamSurface), the tethered rigid body             *)
(* (Body::Animate) and the idle-driven sub-stepping loop (onIdle).         *)
(*                                                                         *)
(* float values are modelled as exact rationals <<n, d>> in lowest terms   *)
(* with d > 0; <<1,0>>, <<-1,0>> and <<0,0>> stand for +inf, -inf and NaN. *)
(* sqrtf, sinf and cosf return their value rounded to the grid 1/Grid.     *)
(***************************************************************************)
EXTENDS Integers, Sequences, FiniteSets, TLC

VARIABLES
    \* Dnum harness: the two operands, the operator applied, its result
    da, db, dop, dres,
    \* ParamSurface: create()'s arguments and loop position, the CPU vertex
    \* vector, the strip bookkeeping, the upload size and the draw calls
    surface, cN, cM, ci, cj, vtxData, nVtxPerStrip, nStrips, uploaded, drawn, spc,
    \* Noise: the amplitude and phase tables A[n][n] and B[n][n]
    A, B,
    \* the activation flag, the Body object and the locals of its last Animate
    \* (call), the number of calls made and what the run started from (hist);
    \* the eye points Scene::Animate derives (cams)
    goon, body, call, ncalls, hist, cams,
    \* onIdle: GLUT's clock (ms), the static tend (ms), the loop variable t,
    \* the position in the handler and the intervals handed to Scene::Animate;
    \* whether a key was pressed, and GLUT's clock and the static tend at the
    \* first press (key)
    clock, tend, t, ipc, intervals, key

dnumVars == <<da, db, dop, dres>>
surfVars == <<surface, cN, cM, ci, cj, vtxData, nVtxPerStrip, nStrips, uploaded, drawn, spc, A, B>>
bodyVars == <<goon, body, call, ncalls, hist, cams>>
idleVars == <<clock, tend, t, ipc, intervals, key>>
vars == <<dnumVars, surfVars, bodyVars, idleVars>>

-----------------------------------------------------------------------------
(* float arithmetic, exact *)

Abs(x) == IF x < 0 THEN -x ELSE x

Sign(x) == IF x < 0 THEN -1 ELSE IF x > 0 THEN 1 ELSE 0

RECURSIVE GCD(_, _)
GCD(a, b) == IF b = 0 THEN a ELSE GCD(b, a % b)

\* n/d in lowest terms; a zero denominator keeps only the sign (inf, NaN)
Norm(n, d) ==
    IF d = 0 THEN <<Sign(n), 0>>
    ELSE LET g == GCD(Abs(n), Abs(d))
         IN  <<Sign(d) * (n \div g), Abs(d) \div g>>

R(n, d) == Norm(n, d)
Zero == <<0, 1>>
One == <<1, 1>>

RAdd(x, y) ==
    IF x[2] = 0 \/ y[2] = 0 THEN Norm(x[1] * y[2] + y[1] * x[2], 0)
    ELSE LET g == GCD(x[2], y[2])
         IN  Norm(x[1] * (y[2] \div g) + y[1] * (x[2] \div g), (x[2] \div g) * y[2])
RNeg(x) == <<-x[1], x[2]>>
RSub(x, y) == RAdd(x, RNeg(y))
\* the factors are cancelled crosswise before they are multiplied
RMul(x, y) ==
    LET g1 == GCD(Abs(x[1]), Abs(y[2]))
        g2 == GCD(Abs(y[1]), Abs(x[2]))
        h1 == IF g1 = 0 THEN 1 ELSE g1
        h2 == IF g2 = 0 THEN 1 ELSE g2
    IN  Norm((x[1] \div h1) * (y[1] \div h2), (x[2] \div h2) * (y[2] \div h1))
RInv(x) == <<Sign(x[1]) * x[2], Abs(x[1])>>
RDiv(x, y) == IF x[2] = 0 /\ y[2] = 0 THEN <<0, 0>> ELSE RMul(x, RInv(y))
RLess(x, y) == RSub(x, y)[1] < 0
RLeq(x, y) == RSub(x, y)[1] <= 0
RMin(x, y) == IF RLess(y, x) THEN y ELSE x
Finite(x) == x[2] # 0

-----------------------------------------------------------------------------
(* vec2 and vec3 of framework.h *)

V2Add(a, b) == <<RAdd(a[1], b[1]), RAdd(a[2], b[2])>>
V2Sub(a, b) == <<RSub(a[1], b[1]), RSub(a[2], b[2])>>
V2Scale(a, k) == <<RMul(a[1], k), RMul(a[2], k)>>
V2Div(a, k) == <<RDiv(a[1], k), RDiv(a[2], k)>>
V2Zero == <<Zero, Zero>>

-----------------------------------------------------------------------------
(* Dnum<vec2> *)

Dnum(f0, d0) == [f |-> f0, d |-> d0]
\* the converting constructor Dnum(float f0, T d0 = T(0))
DnumOf(f0) == Dnum(f0, V2Zero)

DnumAdd(l, r) == Dnum(RAdd(l.f, r.f), V2Add(l.d, r.d))

DnumSub(l, r) == Dnum(RSub(l.f, r.f), V2Sub(l.d, r.d))

DnumMulNoProductRule(l, r) == Dnum(RMul(l.f, r.f), V2Scale(r.d, l.f))
DnumMul(l, r) ==
    Dnum(RMul(l.f, r.f), V2Add(V2Scale(r.d, l.f), V2Scale(l.d, r.f)))

DnumDiv(l, r) ==
    Dnum(RDiv(l.f, r.f),
         V2Div(V2Div(V2Sub(V2Scale(l.d, r.f), V2Scale(r.d, l.f)), r.f), r.f))

-----------------------------------------------------------------------------
(* vec3 of framework.h *)

V3(x, y, z) == <<x, y, z>>
V3Zero == <<Zero, Zero, Zero>>
V3Add(a, b) == <<RAdd(a[1], b[1]), RAdd(a[2], b[2]), RAdd(a[3], b[3])>>
V3Sub(a, b) == <<RSub(a[1], b[1]), RSub(a[2], b[2]), RSub(a[3], b[3])>>
V3Scale(a, k) == <<RMul(a[1], k), RMul(a[2], k), RMul(a[3], k)>>
V3Div(a, k) == <<RDiv(a[1], k), RDiv(a[2], k), RDiv(a[3], k)>>
Dot(a, b) == RAdd(RAdd(RMul(a[1], b[1]), RMul(a[2], b[2])), RMul(a[3], b[3]))
Cross(a, b) ==
    <<RSub(RMul(a[2], b[3]), RMul(a[3], b[2])),
      RSub(RMul(a[3], b[1]), RMul(a[1], b[3])),
      RSub(RMul(a[1], b[2]), RMul(a[2], b[1]))>>

-----------------------------------------------------------------------------
(* sqrtf, sinf, cosf: the value on the grid 1/Grid *)

GridBits == 4
Grid == 2 ^ GridBits
\* M_PI
Pi == <<355, 113>>

\* floor(x * S) for a finite x >= 0
FloorScaled(x, S) == (x[1] \div x[2]) * S + ((x[1] % x[2]) * S) \div x[2]

\* x as a signed count of grid steps, rounded toward zero
ToGrid(x) == Sign(x[1]) * FloorScaled(<<Abs(x[1]), x[2]>>, Grid)

RECURSIVE ISqrtBetween(_, _, _)
ISqrtBetween(lo, hi, y) ==
    IF lo >= hi THEN lo
    ELSE LET mid == (lo + hi + 1) \div 2
         IN  IF mid * mid <= y THEN ISqrtBetween(mid, hi, y)
             ELSE ISqrtBetween(lo, mid - 1, y)
ISqrt(y) == ISqrtBetween(0, IF y < 46340 THEN y ELSE 46340, y)

\* grid product of two grid counts
GMul(a, b) == (a * b) \div Grid

\* Taylor sums on [0, pi/2], in grid counts
SinQ(x) ==
    LET x2 == GMul(x, x)
        x3 == GMul(x2, x)
        x5 == GMul(x3, x2)
        x7 == GMul(x5, x2)
    IN  x - x3 \div 6 + x5 \div 120 - x7 \div 5040
CosQ(x) ==
    LET x2 == GMul(x, x)
        x4 == GMul(x2, x2)
        x6 == GMul(x4, x2)
        x8 == GMul(x6, x2)
    IN  Grid - x2 \div 2 + x4 \div 24 - x6 \div 720 + x8 \div 40320

PiGrid == ToGrid(Pi)
\* the angle reduced to [0, 2 pi), in grid counts
Reduced(a) == ToGrid(a) % (2 * PiGrid)

Sin(a) ==
    LET r == Reduced(a)
        h == IF r > PiGrid THEN r - PiGrid ELSE r
        q == IF 2 * h > PiGrid THEN PiGrid - h ELSE h
        v == SinQ(q)
    IN  R(IF r > PiGrid THEN -v ELSE v, Grid)
Cos(a) ==
    LET r == Reduced(a)
        h == IF r > PiGrid THEN r - PiGrid ELSE r
        q == IF 2 * h > PiGrid THEN PiGrid - h ELSE h
        v == IF 2 * h > PiGrid THEN -CosQ(q) ELSE CosQ(q)
    IN  R(IF r > PiGrid THEN -v ELSE v, Grid)

\* length(v) = sqrtf(dot(v, v)), taken on the grid
Length(a) ==
    LET x == ToGrid(a[1])
        y == ToGrid(a[2])
        z == ToGrid(a[3])
    IN  R(ISqrt(x * x + y * y + z * z), Grid)
\* normalize(v) = v * (1 / length(v))
Normalize(a) == V3Scale(a, RDiv(One, Length(a)))

-----------------------------------------------------------------------------
(* mat4 of framework.h: four rows; vectors are rows, v * M *)

Row4(a, b, c, d) == <<a, b, c, d>>
V4Add(a, b) == <<RAdd(a[1], b[1]), RAdd(a[2], b[2]), RAdd(a[3], b[3]), RAdd(a[4], b[4])>>
V4Scale(a, k) == <<RMul(a[1], k), RMul(a[2], k), RMul(a[3], k), RMul(a[4], k)>>
\* vec4 * mat4
V4MulM(v, m) ==
    V4Add(V4Add(V4Scale(m[1], v[1]), V4Scale(m[2], v[2])),
          V4Add(V4Scale(m[3], v[3]), V4Scale(m[4], v[4])))
\* mat4 * mat4
MMul(a, b) == <<V4MulM(a[1], b), V4MulM(a[2], b), V4MulM(a[3], b), V4MulM(a[4], b)>>

\* mat4() {}: every row a default vec4
ZeroMatrix ==
    <<Row4(Zero, Zero, Zero, Zero), Row4(Zero, Zero, Zero, Zero),
      Row4(Zero, Zero, Zero, Zero), Row4(Zero, Zero, Zero, Zero)>>
Identity ==
    <<Row4(One, Zero, Zero, Zero), Row4(Zero, One, Zero, Zero),
      Row4(Zero, Zero, One, Zero), Row4(Zero, Zero, Zero, One)>>
ScaleMatrix(sc) ==
    <<Row4(sc[1], Zero, Zero, Zero), Row4(Zero, sc[2], Zero, Zero),
      Row4(Zero, Zero, sc[3], Zero), Row4(Zero, Zero, Zero, One)>>
TranslateMatrix(tr) ==
    <<Row4(One, Zero, Zero, Zero), Row4(Zero, One, Zero, Zero),
      Row4(Zero, Zero, One, Zero), Row4(tr[1], tr[2], tr[3], One)>>
Rotation(c, sn, x, y, z) ==
    <<Row4(RAdd(RMul(c, RSub(One, RMul(x, x))), RMul(x, x)),
           RAdd(RMul(RMul(x, y), RSub(One, c)), RMul(z, sn)),
           RSub(RMul(RMul(x, z), RSub(One, c)), RMul(y, sn)), Zero),
      Row4(RSub(RMul(RMul(x, y), RSub(One, c)), RMul(z, sn)),
           RAdd(RMul(c, RSub(One, RMul(y, y))), RMul(y, y)),
           RAdd(RMul(RMul(y, z), RSub(One, c)), RMul(x, sn)), Zero),
      Row4(RAdd(RMul(RMul(x, z), RSub(One, c)), RMul(y, sn)),
           RSub(RMul(RMul(y, z), RSub(One, c)), RMul(x, sn)),
           RAdd(RMul(c, RSub(One, RMul(z, z))), RMul(z, z)), Zero),
      Row4(Zero, Zero, Zero, One)>>
RotationAbout(c, sn, u) == Rotation(c, sn, u[1], u[2], u[3])
RotationMatrix(angle, axis) == RotationAbout(Cos(angle), Sin(angle), Normalize(axis))

-----------------------------------------------------------------------------
(* ParamSurface *)

MaxN == 3
MaxM == 3

\* Polynomial surfaces written with the Dnum operators only, as a subclass
\* of ParamSurface writes its eval(U, V, X, Y, Z).
SurfaceKinds == {"Paraboloid", "Saddle"}

\* Cos of a Dnum: Dnum(cosf(g.f), -sinf(g.f) * g.d)
DnumCos(g) == Dnum(Cos(g.f), V2Scale(g.d, RNeg(Sin(g.f))))

\* sqrtf, on the grid
Sqrt(x) == R(ISqrt(FloorScaled(x, Grid * Grid)), Grid)

tessellationLevel == 20
NoiseN == 3

\* Dnum2 A[n][n], B[n][n] as the implicit constructor leaves them
DefaultTable == [i \in 1..NoiseN |-> [j \in 1..NoiseN |-> DnumOf(Zero)]]

\* rand() / RAND_MAX: RandSteps + 1 equally spaced values of [0, 1], drawn
\* in a sequence that depends on the generator's state (seed)
RandSteps == 8
MaxSeed == 2
Rand(seed, k) == R(((seed + 1) * k + seed * seed) % (RandSteps + 1), RandSteps)

\* initA: the element it gives A[i][j] ...
AmplitudeUnguarded(i, j) == DnumOf(RDiv(One, Sqrt(R(i * i + j * j, 1))))
Amplitude(i, j) ==
    IF i = 0 /\ j = 0 THEN DnumOf(Zero)
    ELSE DnumOf(RDiv(One, Sqrt(R(i * i + j * j, 1))))
\* ... and B[i][j], the (i * n + j)-th draw; B[0][0] is not assigned
Phase(seed, i, j) ==
    IF i = 0 /\ j = 0 THEN DefaultTable[1][1]
    ELSE DnumOf(Rand(seed, i * NoiseN + j))
initA(seed) ==
    /\ A' = [i \in 1..NoiseN |-> [j \in 1..NoiseN |-> Amplitude(i - 1, j - 1)]]
    /\ B' = [i \in 1..NoiseN |-> [j \in 1..NoiseN |-> Phase(seed, i - 1, j - 1)]]

\* Noise::eval: Cos((X * i + Z * j + B[i][j]) * M_PI * 2) * A[i][j]
NoiseTerm(X, Z, i, j) ==
    DnumMul(DnumCos(DnumMul(DnumMul(DnumAdd(DnumAdd(DnumMul(X, DnumOf(R(i, 1))),
                                                    DnumMul(Z, DnumOf(R(j, 1)))),
                                            B[i + 1][j + 1]),
                                    DnumOf(Pi)),
                            DnumOf(R(2, 1)))),
            A[i + 1][j + 1])
\* Y after the first k iterations of the two loops (i outer, j inner)
RECURSIVE NoiseY(_, _, _)
NoiseY(X, Z, k) ==
    IF k = 0 THEN DnumOf(Zero)
    ELSE DnumAdd(NoiseY(X, Z, k - 1), NoiseTerm(X, Z, (k - 1) \div NoiseN, (k - 1) % NoiseN))
NoiseEval(U, V) ==
    [X |-> DnumSub(U, DnumOf(R(1, 2))),
     Y |-> NoiseY(DnumSub(U, DnumOf(R(1, 2))), DnumSub(V, DnumOf(R(1, 2))), NoiseN * NoiseN),
     Z |-> DnumSub(V, DnumOf(R(1, 2)))]

\* eval is virtual: the surface's own override runs
Eval(kind, U, V) ==
    IF kind = "Noise" THEN NoiseEval(U, V)
    ELSE IF kind = "Paraboloid"
    THEN [X |-> U, Y |-> V, Z |-> DnumAdd(DnumMul(U, U), DnumMul(V, V))]
    ELSE [X |-> DnumSub(U, V),
          Y |-> DnumMul(U, V),
          Z |-> DnumSub(DnumMul(DnumMul(U, U), V), DnumOf(R(1, 2)))]

\* position, normal = cross(drdU, drdV) and texcoord from eval's X, Y, Z
VertexOf(r, u, v) ==
    [position |-> V3(r.X.f, r.Y.f, r.Z.f),
     normal   |-> Cross(V3(r.X.d[1], r.Y.d[1], r.Z.d[1]), V3(r.X.d[2], r.Y.d[2], r.Z.d[2])),
     texcoord |-> <<u, v>>]

GenVertexDataSwapsLift(kind, u, v) ==
    VertexOf(Eval(kind, Dnum(u, <<Zero, One>>), Dnum(v, <<One, Zero>>)), u, v)
GenVertexData(kind, u, v) ==
    VertexOf(Eval(kind, Dnum(u, <<One, Zero>>), Dnum(v, <<Zero, One>>)), u, v)

\* the two push_back calls of one (i, j) iteration of create()
StripPairSameRow(kind, i, j, N, M) ==
    <<GenVertexData(kind, R(j, M), R(i, N)), GenVertexData(kind, R(j, M), R(i, N))>>
StripPair(kind, i, j, N, M) ==
    <<GenVertexData(kind, R(j, M), R(i, N)),
      GenVertexData(kind, R(j, M), R(i + 1, N))>>

\* the inner loop bound of create(): for (j = 0; j <= M; j++)
LastColumnExclusive(j, M) == j >= M - 1
LastColumn(j, M) == j >= M

\* create(N, M) up to its loops: the strip bookkeeping and the empty vector
CreateBegin(kind, N, M) ==
    /\ spc = "new"
    /\ surface' = kind
    /\ cN' = N
    /\ cM' = M
    /\ nVtxPerStrip' = (M + 1) * 2
    /\ nStrips' = N
    /\ vtxData' = <<>>
    /\ ci' = 0
    /\ cj' = 0
    /\ spc' = "loop"
    /\ UNCHANGED <<uploaded, drawn>>

\* one iteration of the inner loop of create()
CreateStep ==
    /\ spc = "loop"
    /\ ci < cN
    /\ vtxData' = vtxData \o StripPair(surface, ci, cj, cN, cM)
    /\ IF LastColumn(cj, cM)
       THEN ci' = ci + 1 /\ cj' = 0
       ELSE ci' = ci /\ cj' = cj + 1
    /\ UNCHANGED <<surface, cN, cM, nVtxPerStrip, nStrips, uploaded, drawn, spc, A, B>>

\* glBufferData(nVtxPerStrip * nStrips * sizeof(VertexData), &vtxData[0]):
\* uploaded counts the VertexData elements read from vtxData
CreateUpload ==
    /\ spc = "loop"
    /\ ci >= cN
    /\ uploaded' = nVtxPerStrip * nStrips
    /\ spc' = "ready"
    /\ UNCHANGED <<surface, cN, cM, ci, cj, vtxData, nVtxPerStrip, nStrips, drawn, A, B>>

\* ParamSurface::Draw: one glDrawArrays(first, count) per strip
Draw ==
    /\ spc = "ready"
    /\ drawn' = [i \in 1..nStrips |-> <<(i - 1) * nVtxPerStrip, nVtxPerStrip>>]
    /\ spc' = "drawn"
    /\ UNCHANGED <<surface, cN, cM, ci, cj, vtxData, nVtxPerStrip, nStrips, uploaded, A, B>>

\* ParamSurface() { nVtxPerStrip = nStrips = 0; }
SurfInit ==
    /\ surface = "none"
    /\ cN = 0 /\ cM = 0 /\ ci = 0 /\ cj = 0
    /\ vtxData = <<>>
    /\ nVtxPerStrip = 0 /\ nStrips = 0
    /\ uploaded = 0
    /\ drawn = <<>>
    /\ spc = "new"
    /\ A = DefaultTable
    /\ B = DefaultTable

\* Noise() { initA(); create(); }, up to the loops of create()
NoiseConstruct ==
    \E seed \in 0..MaxSeed :
        /\ initA(seed)
        /\ CreateBegin("Noise", tessellationLevel, tessellationLevel)

-----------------------------------------------------------------------------
(* Object and Body *)

\* Object::SetModelingTransform
ModelMatrix(b) ==
    MMul(MMul(ScaleMatrix(b.scale), RotationMatrix(b.rotationAngle, b.rotationAxis)),
         TranslateMatrix(b.translation))
InverseModelMatrix(b) ==
    MMul(MMul(TranslateMatrix(V3Scale(b.translation, R(-1, 1))),
              RotationMatrix(RNeg(b.rotationAngle), b.rotationAxis)),
         ScaleMatrix(V3(RDiv(One, b.scale[1]), RDiv(One, b.scale[2]), RDiv(One, b.scale[3]))))

\* vec4(0, -0.5, 0, 1), the tether point in the body's frame
LocalTether == Row4(Zero, R(-1, 2), Zero, One)

\* if (length(s - l) > l0)
StretchedAlways(s, l, l0) == TRUE
Stretched(s, l, l0) == RLess(l0, Length(V3Sub(s, l)))

\* K = D * (s - l) * (length(s - l) - l0)
SpringForceIgnoresStiffness(D, s, l, l0) ==
    V3Scale(V3Sub(s, l), RSub(Length(V3Sub(s, l)), l0))
SpringForce(D, s, l, l0) ==
    V3Scale(V3Scale(V3Sub(s, l), D), RSub(Length(V3Sub(s, l)), l0))

\* if (!goon) return;
AnimateReturnsNever(flag) == FALSE
AnimateReturns(flag) == ~flag

\* The members of a Body (m .. kappa, M, Minv) and of its Object base, as the
\* constructors and Scene::Build leave them for the cube.
BuildBody ==
    [scale |-> V3(One, R(3, 2), R(1, 2)),
     translation |-> V3(Zero, R(5, 1), Zero),
     rotationAxis |-> V3(Zero, Zero, One),
     rotationAngle |-> Zero,
     m |-> One,
     g |-> V3(Zero, R(-5, 1), Zero),
     v |-> V3(One, Zero, Zero),
     ro |-> R(3, 10),
     s |-> V3(Zero, R(5, 1), Zero),
     M |-> ZeroMatrix,
     Minv |-> ZeroMatrix,
     D |-> One,
     l0 |-> R(3, 1),
     w |-> V3Zero,
     kappa |-> R(3, 10)]

\* The locals of Body::Animate next to the members: vec3 K is
\* default-constructed to zero, the others are assigned before they are read.
Frame(b, ts, te) ==
    [scale |-> b.scale, translation |-> b.translation,
     rotationAxis |-> b.rotationAxis, rotationAngle |-> b.rotationAngle,
     m |-> b.m, g |-> b.g, v |-> b.v, ro |-> b.ro, s |-> b.s, M |-> b.M,
     Minv |-> b.Minv, D |-> b.D, l0 |-> b.l0, w |-> b.w, kappa |-> b.kappa,
     tstart |-> ts, tend |-> te, ll |-> Row4(Zero, Zero, Zero, Zero),
     l |-> V3Zero, dt |-> Zero, p |-> V3Zero, K |-> V3Zero, F |-> V3Zero,
     I |-> Zero, L |-> V3Zero, torque |-> V3Zero, stretched |-> FALSE]

\* One statement of the body of Body::Animate, on the frame e.
Exec(stmt, e) ==
    CASE stmt = "transform" ->
            [e EXCEPT !.M = ModelMatrix(e), !.Minv = InverseModelMatrix(e)]
      [] stmt = "ll" -> [e EXCEPT !.ll = V4MulM(LocalTether, e.M)]
      [] stmt = "l" -> [e EXCEPT !.l = V3(e.ll[1], e.ll[2], e.ll[3])]
      [] stmt = "dt" -> [e EXCEPT !.dt = RSub(e.tend, e.tstart)]
      [] stmt = "translation" ->
            [e EXCEPT !.translation = V3Add(e.translation, V3Scale(e.v, e.dt))]
      [] stmt = "p" -> [e EXCEPT !.p = V3Scale(e.v, e.m)]
      [] stmt = "K" ->
            IF Stretched(e.s, e.l, e.l0)
            THEN [e EXCEPT !.K = SpringForce(e.D, e.s, e.l, e.l0), !.stretched = TRUE]
            ELSE e
      [] stmt = "F" ->
            [e EXCEPT !.F = V3Sub(V3Add(V3Scale(e.g, e.m), e.K), V3Scale(e.v, e.ro))]
      [] stmt = "p+" -> [e EXCEPT !.p = V3Add(e.p, V3Scale(e.F, e.dt))]
      [] stmt = "v" -> [e EXCEPT !.v = V3Div(e.p, e.m)]
      [] stmt = "I" ->
            [e EXCEPT !.I = RDiv(RMul(e.m, RAdd(RMul(e.scale[1], e.scale[1]),
                                                RMul(e.scale[2], e.scale[2]))),
                                 R(12, 1))]
      [] stmt = "L" -> [e EXCEPT !.L = V3Scale(e.w, e.I)]
      [] stmt = "M" ->
            [e EXCEPT !.torque = V3Sub(Cross(V3Sub(e.l, e.translation), e.K),
                                       V3Scale(e.w, e.kappa))]
      [] stmt = "L+" -> [e EXCEPT !.L = V3Add(e.L, V3Scale(e.torque, e.dt))]
      [] stmt = "w" -> [e EXCEPT !.w = V3Scale(e.L, RDiv(One, e.I))]
      [] stmt = "rotationAngle" ->
            [e EXCEPT !.rotationAngle =
                RSub(e.rotationAngle, RMul(Dot(e.rotationAxis, e.w), e.dt))]

\* The statements of Body::Animate after the activation test, in source order.
StatementsMoveFirst ==
    <<"dt", "translation", "transform", "ll", "l", "p", "K", "F", "p+", "v",
      "I", "L", "M", "L+", "w", "rotationAngle">>
StatementsVelocityFirst ==
    <<"transform", "ll", "l", "dt", "p", "K", "F", "p+", "v", "translation",
      "I", "L", "M", "L+", "w", "rotationAngle">>
Statements ==
    <<"transform", "ll", "l", "dt", "translation", "p", "K", "F", "p+", "v",
      "I", "L", "M", "L+", "w", "rotationAngle">>

\* The statements run in order. (Then's comparison makes TLC evaluate the
\* frame a statement leaves before it goes on to the next one.)
RECURSIVE Run(_, _), Then(_, _)
Run(stmts, e) == IF stmts = <<>> THEN e ELSE Then(Tail(stmts), Exec(Head(stmts), e))
Then(stmts, after) == IF after = after THEN Run(stmts, after) ELSE after

\* The frame Body::Animate(ts, te) ends with.
Animated(b, ts, te) == Run(Statements, Frame(b, ts, te))

BodyOf(e) ==
    [scale |-> e.scale, translation |-> e.translation,
     rotationAxis |-> e.rotationAxis, rotationAngle |-> e.rotationAngle,
     m |-> e.m, g |-> e.g, v |-> e.v, ro |-> e.ro, s |-> e.s, M |-> e.M,
     Minv |-> e.Minv, D |-> e.D, l0 |-> e.l0, w |-> e.w, kappa |-> e.kappa]

NoCall == [active |-> FALSE, pre |-> BuildBody, frame |-> Frame(BuildBody, Zero, Zero)]

\* Body::Animate(ts, te) on the body; call records the call last made:
\* whether it passed the activation test, the body before it and its frame.
Returned(b, e) ==
    /\ body' = BodyOf(e)
    /\ call' = [active |-> TRUE, pre |-> b, frame |-> e]
BodyAnimate(ts, te) ==
    IF AnimateReturns(goon)
    THEN /\ body' = body
         /\ call' = [active |-> FALSE, pre |-> body, frame |-> Frame(body, ts, te)]
    ELSE Returned(body, Animated(body, ts, te))

\* onKeyboard: any key
onKeyboardToggles == goon' = ~goon
onKeyboard ==
    /\ goon' = TRUE

\* Exact values are followed while the denominators of the body's moving
\* members stay within MaxDen.
MaxDen == 100
Representable(b) ==
    /\ \A i \in 1..3 : b.translation[i][2] <= MaxDen /\ b.v[i][2] <= MaxDen /\ b.w[i][2] <= MaxDen
    /\ b.rotationAngle[2] <= MaxDen

\* what a run started from, and whether any call so far stretched the spring
HistInit == hist = [body0 |-> body, stretched |-> FALSE]
HistNext == hist' = [hist EXCEPT !.stretched = @ \/ (call'.active /\ call'.frame.stretched)]

\* Camera(): the eye points are default vec3
CamsInit == cams = [wEye |-> V3Zero, c2Eye |-> V3Zero, c2Lookat |-> V3Zero, c2Vup |-> V3Zero]

BodyIdle == goon = FALSE /\ body = BuildBody /\ call = NoCall /\ ncalls = 0 /\ HistInit /\ CamsInit

-----------------------------------------------------------------------------
(* Body harness: Body::Animate called on bodies of several configurations *)

MaxCalls == 2

Masses == {One, R(2, 1)}
Gravities == {V3Zero, BuildBody.g}
\* <<ro, kappa>>
Drags == {<<Zero, Zero>>, <<BuildBody.ro, BuildBody.kappa>>}
\* <<D, l0>>: the tether hangs 3/4 below the anchor at the start
Springs == {<<One, R(3, 1)>>, <<One, R(3, 4)>>, <<One, R(1, 2)>>, <<Zero, R(1, 2)>>}
\* <<v, w>>
Motions == {<<BuildBody.v, V3Zero>>, <<V3Zero, V3(Zero, Zero, One)>>}
Angles == {Zero, R(1, 2)}

BodyConfigs ==
    {[BuildBody EXCEPT !.m = m, !.g = g, !.ro = dr[1], !.kappa = dr[2],
                       !.D = sp[1], !.l0 = sp[2], !.v = mo[1], !.w = mo[2],
                       !.rotationAngle = a] :
        m \in Masses, g \in Gravities, dr \in Drags, sp \in Springs,
        mo \in Motions, a \in Angles}

\* <<tstart, tend>> of a call; the last runs backwards
CallIntervals == {<<Zero, R(1, 10)>>, <<R(1, 10), R(3, 20)>>, <<R(1, 4), R(1, 10)>>}

BodyInit ==
    /\ goon = FALSE
    /\ body \in BodyConfigs
    /\ call = NoCall
    /\ ncalls = 0
    /\ HistInit
    /\ CamsInit

BodyKey == onKeyboard /\ UNCHANGED <<body, call, ncalls, hist, cams>>

BodyCall ==
    \E iv \in CallIntervals :
        /\ ncalls < MaxCalls
        /\ Representable(body)
        /\ BodyAnimate(iv[1], iv[2])
        /\ ncalls' = ncalls + 1
        /\ HistNext
        /\ UNCHANGED <<goon, cams>>

-----------------------------------------------------------------------------
(* Scene::Animate and onIdle *)

\* const float dt = 0.1f
dt == R(1, 10)

\* glutGet(GLUT_ELAPSED_TIME) is in whole milliseconds; readings are taken
\* ClockStep apart (or not at all apart) up to MaxTicks steps
ClockStep == 50
MaxTicks == 5
Seconds(ms) == R(ms, 1000)

\* Scene::Animate(tstart, tend): every object's Animate (only the Body's
\* changes state: Object::Animate sets rotationAngle = 0.0f * tend on the
\* terrain), then the two eye points
Eye(m) == V3(V4MulM(LocalTether, m)[1], V4MulM(LocalTether, m)[2], V4MulM(LocalTether, m)[3])
Dir(d, m) == V3(V4MulM(d, m)[1], V4MulM(d, m)[2], V4MulM(d, m)[3])
SceneAnimate(ts, te) ==
    /\ BodyAnimate(ts, te)
    /\ ncalls' = ncalls + 1
    /\ HistNext
    /\ cams' = [wEye |-> V3(RMul(R(10, 1), Sin(RDiv(te, R(5, 1)))), Zero,
                             RMul(R(10, 1), Cos(RDiv(te, R(5, 1))))),
                c2Eye |-> Eye(body'.M),
                c2Lookat |-> V3Add(Eye(body'.M), Dir(Row4(Zero, R(-1, 1), Zero, Zero), body'.Minv)),
                c2Vup |-> Dir(Row4(One, Zero, Zero, Zero), body'.Minv)]

\* the loop test of onIdle: t < tend
LoopTest(x, y) == RLess(x, y)

\* Dt = fmin(dt, tend - t)
SubStepUnclamped(x, y) == dt
SubStep(x, y) == RMin(dt, RSub(y, x))

IdleInit ==
    /\ clock = 0
    /\ tend = Zero
    /\ t = Zero
    /\ ipc = "idle"
    /\ intervals = <<>>
    /\ key = [pressed |-> FALSE, at |-> 0, tend |-> Zero]

\* onIdle up to its loop: tstart = tend; tend = reading / 1000; t = tstart.
\* Idle events are at most three clock steps apart.
IdleBegin ==
    \E reading \in {clock, clock + ClockStep, clock + 2 * ClockStep, clock + 3 * ClockStep} :
        /\ ipc = "idle"
        /\ Representable(body)
        /\ reading <= MaxTicks * ClockStep
        /\ RLeq(Seconds(reading), RAdd(tend, Seconds(3 * ClockStep)))
        /\ clock' = reading
        /\ tend' = Seconds(reading)
        /\ t' = tend
        /\ ipc' = "loop"
        /\ UNCHANGED <<intervals, key, bodyVars>>

\* one iteration of the loop of onIdle
IdleStep ==
    /\ ipc = "loop"
    /\ LoopTest(t, tend)
    /\ LET Dt == SubStep(t, tend)
       IN  /\ SceneAnimate(t, RAdd(t, Dt))
           /\ intervals' = Append(intervals, <<t, RAdd(t, Dt)>>)
    /\ t' = RAdd(t, dt)
    /\ UNCHANGED <<clock, tend, ipc, key, goon>>

\* the loop test fails: glutPostRedisplay() and return
IdleEnd ==
    /\ ipc = "loop"
    /\ ~LoopTest(t, tend)
    /\ ipc' = "idle"
    /\ UNCHANGED <<clock, tend, t, intervals, key, bodyVars>>

\* onKeyboard runs between idle events, never inside one; GLUT's clock may
\* have run on since the last idle event read it
IdleKey ==
    \E now \in {clock, clock + ClockStep} :
        /\ ipc = "idle"
        /\ now <= MaxTicks * ClockStep
        /\ onKeyboard
        /\ clock' = now
        /\ key' = IF key.pressed THEN key
                  ELSE [pressed |-> TRUE, at |-> now, tend |-> tend]
        /\ UNCHANGED <<body, call, ncalls, hist, cams, tend, t, ipc, intervals>>

-----------------------------------------------------------------------------
(* Dnum harness *)

DnumValues == {R(-2, 1), Zero, R(1, 2), R(3, 1)}
DnumDerivs == {<<One, Zero>>, <<Zero, One>>, <<R(-1, 2), R(2, 1)>>}
DnumInputs == {Dnum(f0, d0) : f0 \in DnumValues, d0 \in DnumDerivs}

DnumInit == da \in DnumInputs /\ db \in DnumInputs /\ dop = "none" /\ dres = DnumOf(Zero)
DnumIdle == da = DnumOf(Zero) /\ db = DnumOf(Zero) /\ dop = "none" /\ dres = DnumOf(Zero)

OpAdd == dop = "none" /\ dop' = "+" /\ dres' = DnumAdd(da, db) /\ UNCHANGED <<da, db>>
OpSub == dop = "none" /\ dop' = "-" /\ dres' = DnumSub(da, db) /\ UNCHANGED <<da, db>>
OpMul == dop = "none" /\ dop' = "*" /\ dres' = DnumMul(da, db) /\ UNCHANGED <<da, db>>
OpDiv == dop = "none" /\ dop' = "/" /\ dres' = DnumDiv(da, db) /\ UNCHANGED <<da, db>>

-----------------------------------------------------------------------------
(* Specifications *)

\* the Dnum operators applied to sample operands
InitDnum == DnumInit /\ SurfInit /\ BodyIdle /\ IdleInit
NextDnum ==
    \/ OpAdd /\ UNCHANGED <<surfVars, bodyVars, idleVars>>
    \/ OpSub /\ UNCHANGED <<surfVars, bodyVars, idleVars>>
    \/ OpMul /\ UNCHANGED <<surfVars, bodyVars, idleVars>>
    \/ OpDiv /\ UNCHANGED <<surfVars, bodyVars, idleVars>>
SpecDnum == InitDnum /\ [][NextDnum]_vars

\* create(N, M) and Draw() of a surface
InitSurface == DnumIdle /\ SurfInit /\ BodyIdle /\ IdleInit
Create ==
    \E kind \in SurfaceKinds, N \in 1..MaxN, M \in 1..MaxM :
        CreateBegin(kind, N, M) /\ UNCHANGED <<A, B>>
NextSurface ==
    \/ Create /\ UNCHANGED <<dnumVars, bodyVars, idleVars>>
    \/ CreateStep /\ UNCHANGED <<dnumVars, bodyVars, idleVars>>
    \/ CreateUpload /\ UNCHANGED <<dnumVars, bodyVars, idleVars>>
    \/ Draw /\ UNCHANGED <<dnumVars, bodyVars, idleVars>>
SpecSurface == InitSurface /\ [][NextSurface]_vars

\* the Noise terrain: its constructor, then Draw()
InitNoise == DnumIdle /\ SurfInit /\ BodyIdle /\ IdleInit
NextNoise ==
    \/ NoiseConstruct /\ UNCHANGED <<dnumVars, bodyVars, idleVars>>
    \/ CreateStep /\ UNCHANGED <<dnumVars, bodyVars, idleVars>>
    \/ CreateUpload /\ UNCHANGED <<dnumVars, bodyVars, idleVars>>
    \/ Draw /\ UNCHANGED <<dnumVars, bodyVars, idleVars>>
SpecNoise == InitNoise /\ [][NextNoise]_vars

\* Body::Animate and onKeyboard on bodies of several configurations
InitBody == DnumIdle /\ SurfInit /\ BodyInit /\ IdleInit
NextBody ==
    \/ BodyKey /\ UNCHANGED <<dnumVars, surfVars, idleVars>>
    \/ BodyCall /\ UNCHANGED <<dnumVars, surfVars, idleVars>>
SpecBody == InitBody /\ [][NextBody]_vars

\* the program after Scene::Build: idle and keyboard events
Init == DnumIdle /\ SurfInit /\ BodyIdle /\ IdleInit
Next ==
    \/ IdleBegin /\ UNCHANGED <<dnumVars, surfVars>>
    \/ IdleStep /\ UNCHANGED <<dnumVars, surfVars>>
    \/ IdleEnd /\ UNCHANGED <<dnumVars, surfVars>>
    \/ IdleKey /\ UNCHANGED <<dnumVars, surfVars>>
Spec == Init /\ [][Next]_vars
\* GLUT keeps delivering idle events and a running handler runs on
\* (a handler is straight-line code on GLUT's single thread). The fairness is
\* stated on the loop's own variables: while ipc = "loop" only IdleStep
\* changes t and only IdleEnd changes ipc.
LoopAdvance == ipc = "loop" /\ LoopTest(t, tend) /\ t' = RAdd(t, dt) /\ ipc' = ipc
LoopExit == ipc = "loop" /\ ~LoopTest(t, tend) /\ t' = t /\ ipc' = "idle"
SpecFair == Spec /\ WF_<<t, ipc>>(LoopAdvance) /\ WF_<<t, ipc>>(LoopExit)

-----------------------------------------------------------------------------
(* Claims *)

\* C1: while goon is false, every Body::Animate call, whatever its tstart and
\* tend and however often it is repeated, leaves every member of the body as
\* it was: the body still equals the body the run started from.
C1_InactiveAnimateIsNoOp == ~goon => body = hist.body0
C1_Witness ==
    /\ ~goon
    /\ ncalls >= 2
    /\ ~call.active
    /\ call.frame.tstart # call.frame.tend
    /\ body = hist.body0

\* C2: for N, M >= 1, create(N, M) builds N * 2 * (M + 1) vertices, which is
\* the nVtxPerStrip * nStrips it uploads, and Draw walks exactly these
\* vertices as N consecutive strips of 2 * (M + 1).
C2_StripCount ==
    /\ spc \in {"ready", "drawn"} =>
          /\ Len(vtxData) = cN * 2 * (cM + 1)
          /\ nStrips = cN
          /\ nVtxPerStrip = 2 * (cM + 1)
          /\ uploaded = Len(vtxData)
    /\ spc = "drawn" =>
          /\ Len(drawn) = cN
          /\ \A i \in 1..Len(drawn) :
                /\ drawn[i][1] = (i - 1) * 2 * (cM + 1)
                /\ drawn[i][2] = 2 * (cM + 1)
                /\ drawn[i][1] + drawn[i][2] <= Len(vtxData)
C2_Witness == spc = "drawn" /\ cN = 3 /\ cM = 2 /\ Len(vtxData) = 18

\* C3: the vertex at position 2j of strip i is the sample at (j/M, i/N), the
\* one at position 2j+1 the sample at (j/M, (i+1)/N); so the odd vertices of
\* strip i-1 and the even vertices of strip i have the same (u, v), and every
\* texcoord lies in [0,1] x [0,1].
StripOf(k) == (k - 1) \div (2 * (cM + 1))
PlaceOf(k) == (k - 1) % (2 * (cM + 1))
C3_StripLayout ==
    /\ \A k \in 1..Len(vtxData) :
          /\ vtxData[k].texcoord =
                <<R(PlaceOf(k) \div 2, cM), R(StripOf(k) + (PlaceOf(k) % 2), cN)>>
          /\ vtxData[k] = GenVertexData(surface, vtxData[k].texcoord[1], vtxData[k].texcoord[2])
          /\ RLeq(Zero, vtxData[k].texcoord[1]) /\ RLeq(vtxData[k].texcoord[1], One)
          /\ RLeq(Zero, vtxData[k].texcoord[2]) /\ RLeq(vtxData[k].texcoord[2], One)
    /\ \A k \in 1..Len(vtxData) :
          (StripOf(k) >= 1 /\ PlaceOf(k) % 2 = 0) =>
              vtxData[k - 2 * (cM + 1) + 1].texcoord = vtxData[k].texcoord
C3_Witness ==
    /\ spc = "ready"
    /\ cN = 3
    /\ cM = 3
    /\ vtxData[2 * (cM + 1) + 3].texcoord = <<R(1, 3), R(1, 3)>>
    /\ vtxData[4].texcoord = <<R(1, 3), R(1, 3)>>

\* C4: the value of a+b, a-b, a*b, a/b is the scalar result on a.f and b.f;
\* the derivative is a.d + b.d, a.d - b.d, a.f*b.d + a.d*b.f and (for b.f # 0)
\* (b.f*a.d - a.f*b.d) / b.f^2; the operands are not modified.
DnumExpected(a, b, op) ==
    CASE op = "+" -> Dnum(RAdd(a.f, b.f), V2Add(a.d, b.d))
      [] op = "-" -> Dnum(RSub(a.f, b.f), V2Sub(a.d, b.d))
      [] op = "*" -> Dnum(RMul(a.f, b.f), V2Add(V2Scale(b.d, a.f), V2Scale(a.d, b.f)))
      [] op = "/" -> Dnum(RDiv(a.f, b.f),
                          V2Div(V2Sub(V2Scale(a.d, b.f), V2Scale(b.d, a.f)), RMul(b.f, b.f)))
C4_DnumArithmetic ==
    [][(dop' # "none" /\ (dop' = "/" => db.f # Zero)) =>
          /\ dres' = DnumExpected(da, db, dop')
          /\ da' = da
          /\ db' = db]_vars
C4_Witness ==
    /\ dop = "/"
    /\ db.f # Zero
    /\ da.d # db.d
    /\ dres.d[1] # Zero
    /\ dres.d[2] # Zero

\* C5: for a surface written with +, -, * only, GenVertexData(u, v) returns
\* the polynomial's values as position and cross(dr/du, dr/dv) of its
\* closed-form partial derivatives as normal; for x = u, y = v,
\* z = u*u + v*v that is (-2u, -2v, 1).
Two == R(2, 1)
ClosedPosition(kind, u, v) ==
    IF kind = "Paraboloid"
    THEN V3(u, v, RAdd(RMul(u, u), RMul(v, v)))
    ELSE V3(RSub(u, v), RMul(u, v), RSub(RMul(RMul(u, u), v), R(1, 2)))
ClosedNormal(kind, u, v) ==
    IF kind = "Paraboloid"
    THEN V3(RNeg(RMul(Two, u)), RNeg(RMul(Two, v)), One)
    ELSE Cross(V3(One, v, RMul(Two, RMul(u, v))), V3(R(-1, 1), u, RMul(u, u)))
C5_PolynomialNormals ==
    \A k \in 1..Len(vtxData) :
        /\ vtxData[k].position =
              ClosedPosition(surface, vtxData[k].texcoord[1], vtxData[k].texcoord[2])
        /\ vtxData[k].normal =
              ClosedNormal(surface, vtxData[k].texcoord[1], vtxData[k].texcoord[2])
C5_Witness ==
    /\ spc = "ready"
    /\ surface = "Paraboloid"
    /\ \E k \in 1..Len(vtxData) :
          /\ vtxData[k].texcoord = <<R(1, 2), One>>
          /\ vtxData[k].position = V3(R(1, 2), One, R(5, 4))
          /\ vtxData[k].normal = V3(R(-1, 1), R(-2, 1), One)

\* C6: active, with zero gravity, zero linear and angular drag and a spring
\* never stretched (or of zero stiffness), v and w keep their initial values
\* over any sequence of calls and each call advances translation by v * dt.
ZeroForces(b) == b.g = V3Zero /\ b.ro = Zero /\ b.kappa = Zero
Interval(f) == RSub(f.tend, f.tstart)
C6_InertialMotion ==
    (ZeroForces(hist.body0) /\ (~hist.stretched \/ hist.body0.D = Zero)) =>
        /\ body.v = hist.body0.v
        /\ body.w = hist.body0.w
        /\ call.active =>
              body.translation =
                  V3Add(call.pre.translation, V3Scale(hist.body0.v, Interval(call.frame)))
C6_Witness ==
    /\ goon
    /\ call.active
    /\ ncalls >= 2
    /\ ZeroForces(hist.body0)
    /\ hist.stretched
    /\ hist.body0.D = Zero
    /\ body.v # V3Zero
    /\ body.translation # hist.body0.translation
    /\ body.v = hist.body0.v

\* C7: in an active call the spring force K is the zero vector when
\* |s - l| <= l0, equality included; it is nonzero only when |s - l| > l0,
\* and then it is D * (s - l) * (|s - l| - l0). K is what the net force and
\* the torque are computed from.
Distance(f) == Length(V3Sub(f.s, f.l))
C7_SpringThreshold ==
    call.active =>
        /\ RLeq(Distance(call.frame), call.frame.l0) => call.frame.K = V3Zero
        /\ call.frame.K # V3Zero => RLess(call.frame.l0, Distance(call.frame))
        /\ RLess(call.frame.l0, Distance(call.frame)) =>
              call.frame.K =
                  V3Scale(V3Scale(V3Sub(call.frame.s, call.frame.l), call.frame.D),
                          RSub(Distance(call.frame), call.frame.l0))
        /\ call.frame.F =
              V3Sub(V3Add(V3Scale(call.pre.g, call.pre.m), call.frame.K),
                    V3Scale(call.pre.v, call.pre.ro))
        /\ call.frame.torque =
              V3Sub(Cross(V3Sub(call.frame.l, body.translation), call.frame.K),
                    V3Scale(call.pre.w, call.pre.kappa))
C7_Witness ==
    /\ call.active
    /\ call.frame.D # Zero
    /\ Distance(call.frame) = call.frame.l0
    /\ call.frame.K = V3Zero

\* C8: in an active call the new translation is the old one plus the velocity
\* held at the start of the call times dt, and the new velocity is the old one
\* plus (m*g + K - ro*v_old) * dt / m; with m = 1, g = (0,-5,0), v = 0, D = 0
\* and dt = 0.1 translation stays and v becomes (0, -0.5, 0).
C8_EulerStep ==
    call.active =>
        /\ body.translation =
              V3Add(call.pre.translation, V3Scale(call.pre.v, Interval(call.frame)))
        /\ body.v =
              V3Add(call.pre.v,
                    V3Div(V3Scale(V3Sub(V3Add(V3Scale(call.pre.g, call.pre.m), call.frame.K),
                                        V3Scale(call.pre.v, call.pre.ro)),
                                  Interval(call.frame)),
                          call.pre.m))
        /\ (/\ call.pre.m = One
            /\ call.pre.g = V3(Zero, R(-5, 1), Zero)
            /\ call.pre.v = V3Zero
            /\ call.pre.D = Zero
            /\ Interval(call.frame) = R(1, 10)) =>
              /\ body.translation = call.pre.translation
              /\ body.v = V3(Zero, R(-1, 2), Zero)
C8_Witness ==
    /\ call.active
    /\ call.pre.m = One
    /\ call.pre.g = V3(Zero, R(-5, 1), Zero)
    /\ call.pre.v = V3Zero
    /\ call.pre.D = Zero
    /\ Interval(call.frame) = R(1, 10)
    /\ body.v = V3(Zero, R(-1, 2), Zero)

\* C9: the intervals onIdle hands to Scene::Animate, over all idle events,
\* start at 0, are contiguous and non-overlapping, each of positive length at
\* most 0.1; none reaches beyond the elapsed time read by its event, and when
\* an event returns the last one ends exactly at that time. A started loop is
\* not interleaved with another event's reading and always finishes.
IntervalsContiguous ==
    /\ \A k \in 1..Len(intervals) :
          /\ RLess(intervals[k][1], intervals[k][2])
          /\ RLeq(RSub(intervals[k][2], intervals[k][1]), R(1, 10))
          /\ RLeq(intervals[k][2], tend)
    /\ \A k \in 1..(Len(intervals) - 1) : intervals[k + 1][1] = intervals[k][2]
    /\ intervals # <<>> => intervals[1][1] = Zero
    /\ ipc = "idle" =>
          IF intervals = <<>> THEN tend = Zero ELSE intervals[Len(intervals)][2] = tend
TetherBefore(b) ==
    V3Add(b.translation,
          V3(RMul(RDiv(b.scale[2], Two), Sin(b.rotationAngle)),
             RNeg(RMul(RDiv(b.scale[2], Two), Cos(b.rotationAngle))),
             Zero))
C10_TetherFromPreviousPose ==
    call.active =>
        /\ call.frame.l = TetherBefore(call.pre)
        /\ body.M = ModelMatrix(call.pre)
        /\ body.translation =
              V3Add(call.pre.translation, V3Scale(call.pre.v, Interval(call.frame)))
        /\ call.frame.torque =
              V3Sub(Cross(V3Sub(TetherBefore(call.pre), body.translation), call.frame.K),
                    V3Scale(call.pre.w, call.pre.kappa))
C10_Witness ==
    /\ call.active
    /\ call.frame.K # V3Zero
    /\ call.pre.rotationAngle # Zero
    /\ body.translation # call.pre.translation
    /\ call.frame.torque # V3Zero

\* C11 as stated: goon is true exactly when a key has been pressed, a call
\* integrates only after a press, and no call integrates time that elapsed
\* before the press: an integrated interval starts no earlier than the clock
\* stood at the first press.
C11_NothingBeforeActivationIntegrated ==
    /\ goon <=> key.pressed
    /\ call.active => key.pressed
    /\ call.active => RLeq(Seconds(key.at), call.frame.tstart)

\* C11 amended: goon is false at start, true from the first key press on and
\* never false again; a call of Body::Animate integrates iff a key was pressed
\* before it; an integrated interval starts no earlier than the static tend
\* stood at the first press, so time already handed to Scene::Animate before
\* activation is not integrated afterwards. (The time between the last idle
\* event's clock reading and the press is integrated by the next idle event.)
C11_ActivationLatch ==
    /\ [](goon <=> key.pressed)
    /\ [][goon => goon']_vars
    /\ [][ncalls' # ncalls => (call'.active <=> key.pressed)]_vars
    /\ [](call.active => (key.pressed /\ RLeq(key.tend, call.frame.tstart)))
    /\ [](RLeq(key.tend, Seconds(key.at)))
C11_Witness ==
    /\ goon
    /\ call.active
    /\ key.tend # Zero
    /\ call.frame.tstart = key.tend
    /\ RLess(call.frame.tstart, Seconds(key.at))
    /\ Len(intervals) >= 2

\* C12: for the Noise terrain, at every sample (u, v) and every phase table,
\* the position has x = u - 0.5 and z = v - 0.5 and y = Y(u, v), the sum of
\* A[i][j] * cos(2 pi (i (u - 0.5) + j (v - 0.5) + B[i][j])) over the
\* frequencies other than (0, 0); the normal GenVertexData returns is
\* (dY/du, -1, dY/dv) with dY/du and dY/dv the sums of
\* -2 pi i A[i][j] sin(...) and -2 pi j A[i][j] sin(...): its y component is
\* -1, so it is never the zero vector, and the (0, 0) term adds nothing to Y
\* or to its derivatives. (A vertex is examined when create() pushes it and
\* again once create() has returned.)
Half == R(1, 2)
PhaseAngle(u, v, i, j) ==
    RMul(RMul(RAdd(RAdd(RMul(RSub(u, Half), R(i, 1)), RMul(RSub(v, Half), R(j, 1))),
                   B[i + 1][j + 1].f),
              Pi),
         Two)
Decay(i, j) == RDiv(One, Sqrt(R(i * i + j * j, 1)))
HeightTerm(u, v, i, j) == RMul(Decay(i, j), Cos(PhaseAngle(u, v, i, j)))
\* d/dw of HeightTerm, w being the parameter that frequency f multiplies
SlopeTerm(u, v, i, j, f) ==
    RNeg(RMul(RMul(RMul(Two, Pi), R(f, 1)), RMul(Decay(i, j), Sin(PhaseAngle(u, v, i, j)))))
RECURSIVE Height(_, _, _), SlopeU(_, _, _), SlopeV(_, _, _)
Height(u, v, k) ==
    IF k = 0 THEN Zero
    ELSE RAdd(Height(u, v, k - 1), HeightTerm(u, v, k \div NoiseN, k % NoiseN))
SlopeU(u, v, k) ==
    IF k = 0 THEN Zero
    ELSE RAdd(SlopeU(u, v, k - 1), SlopeTerm(u, v, k \div NoiseN, k % NoiseN, k \div NoiseN))
SlopeV(u, v, k) ==
    IF k = 0 THEN Zero
    ELSE RAdd(SlopeV(u, v, k - 1), SlopeTerm(u, v, k \div NoiseN, k % NoiseN, k % NoiseN))
Terrain(vtx, u, v) ==
    /\ vtx.position = V3(RSub(u, Half), Height(u, v, NoiseN * NoiseN - 1), RSub(v, Half))
    /\ vtx.normal = V3(SlopeU(u, v, NoiseN * NoiseN - 1), R(-1, 1),
                       SlopeV(u, v, NoiseN * NoiseN - 1))
    /\ vtx.normal # V3Zero
Examined ==
    IF spc = "loop" THEN {k \in 1..Len(vtxData) : k + 2 > Len(vtxData)}
    ELSE 1..Len(vtxData)
C12_NoiseNormals ==
    surface = "Noise" =>
        \A k \in Examined :
            Terrain(vtxData[k], vtxData[k].texcoord[1], vtxData[k].texcoord[2])
C12_Witness ==
    /\ surface = "Noise"
    /\ spc = "ready"
    /\ Len(vtxData) = 2 * (tessellationLevel + 1) * tessellationLevel
    /\ B[2][3].f # Zero
    /\ \E k \in 1..Len(vtxData) :
          /\ vtxData[k].texcoord = <<R(1, 4), R(3, 4)>>
          /\ vtxData[k].normal[1] # Zero
          /\ vtxData[k].normal[2] = R(-1, 1)
          /\ vtxData[k].normal[3] # Zero

====
